---- MODULE Spec2Model ----
(***************************************************************************)
(* A model of the cloud-native VideoRAG pipeline: the segmenter, the       *)
(* ingestion orchestrator (CloudVideoRAGService.ingest_video), the store   *)
(* adapter (SupabaseVectorStore), the query path and the blocking entry     *)
(* points of VideoRAG.                                                     *)
(*                                                                         *)
(* Time is counted in milliseconds.  Python's None is the string None      *)
(* where the value is otherwise a string and the empty sequence where it   *)
(* is otherwise a number (<<x>> is the number x, <<>> is None).            *)
(***************************************************************************)
EXTENDS Integers, Sequences, FiniteSets, TLC

VARIABLES
    segmenter,      \* the service's VideoSegmenter: segment_duration, frames_per_segment
    store,          \* the rows of the Supabase table
    runs,           \* the ingest_video coroutine of each task: its position and locals
    threads,        \* the asyncio.to_thread worker of each task's upsert
    q,              \* the query coroutine: its position and locals
    last_cleanup,   \* the last cleanup(session_id) call and how it ended, until the next ingest
    ingests,        \* number of ingest_video calls made so far
    prev_ingest,    \* the ingest that completed as the caller's last call, if it did
    seg_call,       \* a direct call of VideoSegmenter.segment: its input and result
    config,         \* the arguments the service and the last QueryParam were constructed with
    caller          \* the last call of a blocking entry point: the caller's context, the outcome

vars == <<segmenter, store, runs, threads, q, last_cleanup, ingests, prev_ingest, seg_call, config, caller>>

-----------------------------------------------------------------------------
(* Bounds of the model. *)

MaxIngests == 2          \* ingest_video calls in one behaviour
MaxTopK == 2             \* largest top_k a query asks for
MaxDurationSteps == 27   \* source durations are 0 .. MaxDurationSteps steps of 2.5 s
MaxSegmentDuration == 31 \* largest configured segment_duration, in seconds

(* Program constants. *)

DefaultSegmentDuration == 30
DefaultFramesPerSegment == 6

None == "None"

Sessions == {"s1", "s2"}
Runs == {"r1", "r2"}
ServiceErrors == {"APIError", "CancelledError"}

Min(a, b) == IF a <= b THEN a ELSE b
Max(a, b) == IF a >= b THEN a ELSE b
Range(s) == {s[i] : i \in 1..Len(s)}

(* Python truthiness of an optional number, and `a or b`. *)
Truthy(o) == o # <<>> /\ o[1] # 0
PyOr(a, b) == IF Truthy(a) THEN a ELSE b

-----------------------------------------------------------------------------
(* VideoSegmenter *)

(* math.ceil(a / b) for a >= 0, b > 0 *)
CeilDiv(a, b) == (a + b - 1) \div b

(* A count that rounds down: int(duration / self.segment_duration) *)
total_segments_floor(duration, segment_duration) ==
    duration \div (segment_duration * 1000)

(* total_segments = int(math.ceil(duration / self.segment_duration)),
   duration in ms, segment_duration in seconds *)
total_segments(duration, segment_duration) ==
    CeilDiv(duration, segment_duration * 1000)

(* VideoSegmenter.__init__ *)
VideoSegmenter(segment_duration, frames_per_segment) ==
    [segment_duration |-> Max(1, segment_duration),
     frames_per_segment |-> Max(0, frames_per_segment)]

(* An id that counts start and end in whole seconds *)
segment_id_seconds(index, start, end) == <<"seg", index, start \div 1000, end \div 1000>>

(* f"seg-{index:04d}-{int(start * 1000)}-{int(end * 1000)}" *)
segment_id(index, start, end) == <<"seg", index, start, end>>

(* Offsets that skip the test of frames_per_segment and always ask for a
   first frame *)
frame_offsets_unguarded(self, duration) ==
    [k \in 1..Max(self.frames_per_segment, 1) |->
        ((k - 1) * Max(duration - 1, 0)) \div Max(self.frames_per_segment, 1)]

(* VideoSegmenter._frame_offsets: np.linspace(0, max(duration - 0.001, 0.0),
   self.frames_per_segment, endpoint=False), in ms within the subclip; no
   offset when frames_per_segment <= 0 or duration <= 0. *)
frame_offsets(self, duration) ==
    IF self.frames_per_segment <= 0 \/ duration <= 0
    THEN <<>>
    ELSE [k \in 1..self.frames_per_segment |->
            ((k - 1) * Max(duration - 1, 0)) \div self.frames_per_segment]

(* self._frame_to_base64(subclip.get_frame(offset)): the JPEG data URL of the
   frame the decoder returns for the offset. *)
frame_to_base64(offset) == [image |-> "data:image/jpeg;base64", offset |-> offset]

(* The loop of VideoSegmenter.segment over one opened clip.  clip_duration
   is <<ms>> or <<>> (clip.duration is None); has_audio says whether the
   subclips carry an audio stream.  audio_path is <<id>> for the file
   temp_dir/<id>.mp3 and <<>> for None.  get_frame is called once for every
   offset of frame_offsets. *)
segment(self, clip_duration, has_audio) ==
    LET duration == IF Truthy(clip_duration) THEN clip_duration[1] ELSE 0
        S == self.segment_duration * 1000
        n == total_segments(duration, self.segment_duration)
    IN  [i \in 1..n |->
            LET index == i - 1
                start == index * S
                end == Min((index + 1) * S, duration)
                id == segment_id(index, start, end)
                offsets == frame_offsets(self, end - start)
            IN  [id |-> id,
                 start |-> start,
                 end |-> end,
                 get_frame |-> offsets,
                 frames_base64 |-> [k \in 1..Len(offsets) |-> frame_to_base64(offsets[k])],
                 audio_path |-> IF has_audio THEN <<id>> ELSE <<>>]]

-----------------------------------------------------------------------------
(* The source files a caller may name.  VideoFileClip(video_path) raises for
   a file that cannot be opened; clip.duration may be None or 0. *)

VideoPaths == {"missing.mp4", "noduration.mp4", "zero.mp4", "silent30.mp4", "talk45.mp4"}

Clip(video_path) ==
    CASE video_path = "missing.mp4"    -> [openable |-> FALSE, duration |-> <<>>, audio |-> FALSE]
      [] video_path = "noduration.mp4" -> [openable |-> TRUE, duration |-> <<>>, audio |-> FALSE]
      [] video_path = "zero.mp4"       -> [openable |-> TRUE, duration |-> <<0>>, audio |-> FALSE]
      [] video_path = "silent30.mp4"   -> [openable |-> TRUE, duration |-> <<30000>>, audio |-> FALSE]
      [] video_path = "talk45.mp4"     -> [openable |-> TRUE, duration |-> <<45000>>, audio |-> TRUE]

-----------------------------------------------------------------------------
(* A transcriber that does not look whether the file exists *)
transcribe_path_unchecked(audio_path, exists, text) ==
    IF audio_path = <<>>
    THEN [called |-> FALSE, transcript |-> ""]
    ELSE [called |-> TRUE, transcript |-> IF text = None \/ text = "" THEN "" ELSE text]

(* WhisperTranscriber.transcribe_path: exists is audio_path.exists(), text is
   response.text of the transcription service (None when it has none). *)

TranscriptionTexts == {"speech", None}

transcribe_path(audio_path, exists, text) ==
    IF audio_path = <<>> \/ ~exists
    THEN [called |-> FALSE, transcript |-> ""]
    ELSE [called |-> TRUE, transcript |-> IF text = None \/ text = "" THEN "" ELSE text]

(* The user content of the request VisionCaptioner.describe sends: one text
   item, then one image item per frame of the segment (lines 20-40). *)
describe_request(seg, transcript) ==
    <<[type |-> "input_text",
       prompt |-> IF Len(seg.frames_base64) = 0
                  THEN "No frames were extracted for this segment."
                  ELSE "Analyze the provided video frames and transcript.",
       transcript |-> IF transcript # "" THEN transcript ELSE "N/A"]>>
    \o [k \in 1..Len(seg.frames_base64) |->
            [type |-> "input_image", image_base64 |-> seg.frames_base64[k]]]

(* JSON values of the services' structured responses: an array of strings
   and a single string.  A response text that is not JSON is NotJson. *)
JsonArray(items) == [type |-> "array", items |-> items]
JsonString(s) == [type |-> "string", items |-> <<s>>]
NotJson == [not_json |-> TRUE]

(* json.loads(payload): the parsed object, or JSONDecodeError *)
json_loads(payload) ==
    IF payload = NotJson
    THEN [ok |-> FALSE, error |-> "JSONDecodeError", value |-> payload]
    ELSE [ok |-> TRUE, error |-> None, value |-> payload]

(* The responses of the captioning and summarization services. *)
CaptionTexts == {"caption"}
SummaryPayloads == {[summary |-> "summary", key_points |-> JsonArray(<<"point">>)]}

(* Responses of the summarization service that break the declared shape
   {summary: string, key_points: array of strings}. *)
MalformedSummaryPayloads ==
    {NotJson,
     [summary |-> "summary"],
     [key_points |-> JsonArray(<<"point">>)],
     [summary |-> "summary", key_points |-> JsonString("point")]}

(* "\n".join(points_list) *)
JoinLines(points_list) ==
    IF Len(points_list) = 0 THEN ""
    ELSE IF Len(points_list) = 1 THEN points_list[1]
    ELSE "lines"

(* Lines 9-15 of build_embedding_input: summary.get("key_points", []) as a
   list; a str becomes the list of that one string. *)
points_list(summary) ==
    LET raw_points == IF "key_points" \in DOMAIN summary
                      THEN summary.key_points ELSE JsonArray(<<>>)
    IN  CASE raw_points.type = "string" -> <<raw_points.items[1]>>
          [] raw_points.type = "array" -> raw_points.items
          [] OTHER -> <<>>

(* build_embedding_input: the labelled sections of the text, in order *)
build_embedding_input(summary, caption, transcript) ==
    <<"Summary:", IF "summary" \in DOMAIN summary THEN summary.summary ELSE "",
      "Key Points:", JoinLines(points_list(summary)),
      "Caption:", caption,
      "Transcript:", transcript>>

(* The embedding service maps a text to its vector; the model's vectors tell
   the texts that mention speech (1) from those that do not (0). *)
Questions == {<<"speech">>, <<"scene">>}

EmbeddingOf(text) == IF "speech" \in Range(text) THEN 1 ELSE 0

-----------------------------------------------------------------------------
(* SupabaseVectorStore: the table holds one row per (session_id, segment_id);
   upsert replaces the row of a key that is already present. *)

SameKey(a, b) == a.session_id = b.session_id /\ a.segment_id = b.segment_id

(* A plain insert in place of the upsert *)
insert_sync(rows, records) == rows \cup records

(* An upsert whose conflict target is segment_id alone *)
upsert_sync_by_segment(rows, records) ==
    {row \in rows : \A rec \in records : row.segment_id # rec.segment_id} \cup records

(* self.client.table(self.table_name).upsert(records).execute() *)
upsert_sync(rows, records) ==
    {row \in rows : \A rec \in records : ~SameKey(row, rec)} \cup records

(* A delete without the session filter *)
delete_unfiltered(rows, session_id) == {}

(* self.client.table(...).delete().eq("session_id", session_id).execute() *)
delete_sync(rows, session_id) ==
    {row \in rows : row.session_id # session_id}

SessionRows(rows, session_id) == {row \in rows : row.session_id = session_id}
SessionKeys(rows, session_id) == {row.segment_id : row \in SessionRows(rows, session_id)}

-----------------------------------------------------------------------------
(* CloudVideoRAGService.ingest_video *)

IdleRun ==
    [pc |-> "idle", session_id |-> None, video_path |-> None,
     segments |-> <<>>, temp_dir |-> FALSE, idx |-> 0,
     transcript |-> None, caption_request |-> <<>>, caption |-> None, summary |-> None,
     records |-> <<>>, pending |-> None, error |-> None, raised_in |-> None,
     error_segment |-> <<>>,
     no_audio |-> {}, asr_called |-> {}, repeat |-> FALSE, store_before |-> {}]

IdleThread == [state |-> "none", records |-> <<>>, written |-> {}]

IdleQuery ==
    [pc |-> "idle", session_id |-> None, question |-> <<>>,
     top_k |-> 0, similarity_threshold |-> <<>>,
     query_embedding |-> <<>>, matches |-> <<>>, evidence |-> <<>>,
     calls |-> <<>>,
     result |-> None, error |-> None, raised_in |-> None]

NoCleanup == [session_id |-> None, status |-> None]
NoCaller == [entry |-> None, loop_running |-> FALSE, error |-> None]
NoQueryParam == [top_k |-> <<>>, similarity_threshold |-> <<>>]

(* The arguments of CloudVideoRAGService(...) when the caller gives neither
   segment_duration nor frames_per_segment, and no QueryParam made yet. *)
DefaultConfig ==
    [segment_duration |-> DefaultSegmentDuration,
     frames_per_segment |-> DefaultFramesPerSegment,
     query_param |-> NoQueryParam]
NoIngest == [session_id |-> None, video_path |-> None]

RunEnded(r) == runs[r].pc \in {"idle", "Done", "Failed"}
QueryEnded == q.pc \in {"idle", "Returned", "Failed"}

(* The blocking entry points run each call with asyncio.run, which joins the
   worker threads of the call before it returns: the caller's next call
   starts when the last one has ended and left no thread running. *)
NoCallInProgress ==
    /\ \A r \in Runs : RunEnded(r) /\ threads[r].state # "running"
    /\ QueryEnded

(* A record whose session_id is a fixed partition, not the caller's *)
index_record_fixed_session(session_id, seg, summary, caption, transcript, embedding) ==
    [session_id |-> "s1",
     segment_id |-> seg.id,
     start |-> seg.start,
     end |-> seg.end,
     summary |-> summary.summary,
     key_points |-> summary.key_points,
     caption |-> caption,
     transcript |-> transcript,
     embedding |-> embedding]

(* The record ingest_video appends for one segment (lines 68-80). *)
index_record(session_id, seg, summary, caption, transcript, embedding) ==
    [session_id |-> session_id,
     segment_id |-> seg.id,
     start |-> seg.start,
     end |-> seg.end,
     summary |-> summary.summary,
     key_points |-> summary.key_points,
     caption |-> caption,
     transcript |-> transcript,
     embedding |-> embedding]

(* A loop that leaves for the upsert after any segment *)
after_append_early(i, n) == "upsert"

(* Lines 60 and 82: the loop goes on to the next segment, and to the upsert
   after the last one. *)
after_append(i, n) == IF i < n THEN "transcribe" ELSE "upsert"

(* An exception raised inside the try block: the finally clause runs next.
   The exception is the one the awaited call raised, as it was raised: no
   handler of ingest_video wraps it or attaches the segment to it
   (error_segment stays None). *)
Raise(r, err, where) ==
    runs' = [runs EXCEPT ![r].pc = "finally", ![r].pending = err, ![r].raised_in = where,
                         ![r].error_segment = <<>>]

(* The caller starts ingest_video(session_id, video_path); it has no other
   call in progress.  The entry point that makes the call says what becomes
   of caller. *)
IngestVideo(r, session_id, video_path) ==
    /\ ingests < MaxIngests
    /\ NoCallInProgress
    /\ runs' = [runs EXCEPT ![r] =
                  [IdleRun EXCEPT !.pc = "Segmenting",
                                  !.session_id = session_id,
                                  !.video_path = video_path,
                                  !.repeat = (prev_ingest = [session_id |-> session_id,
                                                              video_path |-> video_path]),
                                  !.store_before = store]]
    /\ threads' = [threads EXCEPT ![r] = IdleThread]
    /\ q' = IdleQuery
    /\ last_cleanup' = NoCleanup
    /\ ingests' = ingests + 1
    /\ prev_ingest' = NoIngest
    /\ UNCHANGED <<segmenter, store, seg_call, config>>

(* segments, temp_dir = self.segmenter.segment(video_path), line 56: the
   call is made before the try block is entered.  segment() makes the
   temporary directory first and then opens and decodes the clip. *)
SegmentFails(r, err) ==
    runs' = [runs EXCEPT ![r].pc = "Failed", ![r].temp_dir = TRUE,
                         ![r].error = err, ![r].raised_in = "segment"]

SegmentReturns(r, segments) ==
    runs' = [runs EXCEPT ![r].pc = after_append(0, Len(segments)),
                         ![r].temp_dir = TRUE,
                         ![r].segments = segments,
                         ![r].idx = 1]

Segment(r) ==
    /\ runs[r].pc = "Segmenting"
    /\ LET clip == Clip(runs[r].video_path)
           segments == segment(segmenter, clip.duration, clip.audio)
       IN  \/ ~clip.openable /\ SegmentFails(r, "OSError")
           \/ clip.openable /\ SegmentReturns(r, segments)
           \/ clip.openable /\ Len(segments) > 0 /\ SegmentFails(r, "IOError")
    /\ UNCHANGED <<segmenter, store, threads, q, last_cleanup, ingests, prev_ingest, seg_call, config, caller>>

(* transcript = await self.transcriber.transcribe_path(segment.audio_path) *)
Transcribe(r) ==
    /\ runs[r].pc = "transcribe"
    /\ LET i == runs[r].idx
           seg == runs[r].segments[i]
       IN \E exists \in BOOLEAN, resp \in TranscriptionTexts \cup ServiceErrors :
            LET t == transcribe_path(seg.audio_path, exists,
                                     IF resp \in ServiceErrors THEN None ELSE resp)
            IN  IF t.called /\ resp \in ServiceErrors
                THEN Raise(r, resp, "transcribe")
                ELSE runs' = [runs EXCEPT
                        ![r].pc = "caption",
                        ![r].transcript = t.transcript,
                        ![r].no_audio = IF seg.audio_path = <<>> \/ ~exists
                                        THEN @ \cup {i} ELSE @,
                        ![r].asr_called = IF t.called THEN @ \cup {i} ELSE @]
    /\ UNCHANGED <<segmenter, store, threads, q, last_cleanup, ingests, prev_ingest, seg_call, config, caller>>

(* caption = await self.captioner.describe(segment, transcript) *)
Describe(r) ==
    /\ runs[r].pc = "caption"
    /\ \E resp \in CaptionTexts \cup ServiceErrors :
          IF resp \in ServiceErrors
          THEN Raise(r, resp, "caption")
          ELSE runs' = [runs EXCEPT
                  ![r].pc = "summarize",
                  ![r].caption_request =
                      describe_request(runs[r].segments[runs[r].idx], runs[r].transcript),
                  ![r].caption = resp]
    /\ UNCHANGED <<segmenter, store, threads, q, last_cleanup, ingests, prev_ingest, seg_call, config, caller>>

(* summary = await self.summarizer.summarize(transcript, caption) *)
Summarize(r) ==
    /\ runs[r].pc = "summarize"
    /\ \/ \E err \in ServiceErrors : Raise(r, err, "summarize")
       \/ \E resp \in SummaryPayloads :
             runs' = [runs EXCEPT ![r].pc = "embed", ![r].summary = resp]
    /\ UNCHANGED <<segmenter, store, threads, q, last_cleanup, ingests, prev_ingest, seg_call, config, caller>>

(* The summarization service answers with a payload that breaks the declared
   shape: summarize returns json.loads(payload) as it is, or json.loads
   raises. *)
SummarizeMalformed(r) ==
    /\ runs[r].pc = "summarize"
    /\ \E payload \in MalformedSummaryPayloads :
          IF json_loads(payload).ok
          THEN runs' = [runs EXCEPT ![r].pc = "embed",
                                    ![r].summary = json_loads(payload).value]
          ELSE Raise(r, json_loads(payload).error, "summarize")
    /\ UNCHANGED <<segmenter, store, threads, q, last_cleanup, ingests, prev_ingest, seg_call, config, caller>>

(* embedding = await self.embedding_client.embed(embedding_input), then
   records.append({...}) and the next iteration of the loop.
   summary["summary"] and summary["key_points"] raise KeyError for a summary
   without the field. *)
Embed(r) ==
    /\ runs[r].pc = "embed"
    /\ \/ \E err \in ServiceErrors : Raise(r, err, "embed")
       \/ LET i == runs[r].idx
               embedding_input == build_embedding_input(runs[r].summary, runs[r].caption,
                                                        runs[r].transcript)
               embedding == EmbeddingOf(embedding_input)
               rec == index_record(runs[r].session_id, runs[r].segments[i],
                                   runs[r].summary, runs[r].caption,
                                   runs[r].transcript, embedding)
           IN  IF {"summary", "key_points"} \subseteq DOMAIN runs[r].summary
               THEN runs' = [runs EXCEPT
                       ![r].records = Append(@, rec),
                       ![r].idx = i + 1,
                       ![r].transcript = None,
                       ![r].caption_request = <<>>,
                       ![r].caption = None,
                       ![r].summary = None,
                       ![r].pc = after_append(i, Len(runs[r].segments))]
               ELSE Raise(r, "KeyError", "append")
    /\ UNCHANGED <<segmenter, store, threads, q, last_cleanup, ingests, prev_ingest, seg_call, config, caller>>

(* await self.vector_store.upsert_records(records): nothing to do for an
   empty batch, else _upsert_sync is handed to a worker thread. *)
UpsertRecords(r) ==
    /\ runs[r].pc = "upsert"
    /\ IF Len(runs[r].records) = 0
       THEN /\ runs' = [runs EXCEPT ![r].pc = "finally", ![r].pending = "ok"]
            /\ UNCHANGED threads
       ELSE /\ runs' = [runs EXCEPT ![r].pc = "await_upsert"]
            /\ threads' = [threads EXCEPT ![r] =
                  [state |-> "running", records |-> runs[r].records, written |-> {}]]
    /\ UNCHANGED <<segmenter, store, q, last_cleanup, ingests, prev_ingest, seg_call, config, caller>>

(* The worker thread runs _upsert_sync: the store writes the rows of the
   batch it accepts; execute() returns when it wrote them all and raises
   otherwise. *)
UpsertSync(r) ==
    /\ threads[r].state = "running"
    /\ \E W \in SUBSET (1..Len(threads[r].records)) :
          LET accepted == {threads[r].records[i] : i \in W}
          IN  /\ store' = upsert_sync(store, accepted)
              /\ threads' = [threads EXCEPT
                    ![r].state = IF W = 1..Len(threads[r].records)
                                 THEN "returned" ELSE "raised",
                    ![r].written = {rec.segment_id : rec \in accepted}]
    /\ prev_ingest' = NoIngest
    /\ UNCHANGED <<segmenter, runs, q, last_cleanup, ingests, seg_call, config, caller>>

(* An await that hands the batch to the store again when the write failed *)
AwaitUpsertRetry(r) ==
    /\ runs[r].pc = "await_upsert"
    /\ threads[r].state \in {"returned", "raised"}
    /\ runs' = [runs EXCEPT
          ![r].pc = IF threads[r].state = "returned" THEN "finally" ELSE "upsert",
          ![r].pending = IF threads[r].state = "returned" THEN "ok" ELSE @]
    /\ UNCHANGED <<segmenter, store, threads, q, last_cleanup, ingests, prev_ingest, seg_call, config, caller>>

(* The await of asyncio.to_thread completes with the thread's outcome. *)
AwaitUpsert(r) ==
    /\ runs[r].pc = "await_upsert"
    /\ threads[r].state \in {"returned", "raised"}
    /\ runs' = [runs EXCEPT
          ![r].pc = "finally",
          ![r].pending = IF threads[r].state = "returned" THEN "ok" ELSE "APIError",
          ![r].raised_in = IF threads[r].state = "returned" THEN None ELSE "upsert"]
    /\ UNCHANGED <<segmenter, store, threads, q, last_cleanup, ingests, prev_ingest, seg_call, config, caller>>

(* The task is cancelled while it awaits the thread: CancelledError is
   raised in the coroutine; the thread is not interrupted. *)
CancelUpsert(r) ==
    /\ runs[r].pc = "await_upsert"
    /\ Raise(r, "CancelledError", "upsert")
    /\ UNCHANGED <<segmenter, store, threads, q, last_cleanup, ingests, prev_ingest, seg_call, config, caller>>

(* finally: shutil.rmtree(temp_dir, ignore_errors=True), then the function
   returns or the pending exception propagates to the caller (and the
   locals of the loop are gone). *)
Finally(r) ==
    /\ runs[r].pc = "finally"
    /\ runs' = [runs EXCEPT ![r] =
          IF runs[r].pending = "ok"
          THEN [runs[r] EXCEPT !.temp_dir = FALSE, !.pc = "Done"]
          ELSE [IdleRun EXCEPT !.pc = "Failed",
                               !.session_id = runs[r].session_id,
                               !.video_path = runs[r].video_path,
                               !.segments = runs[r].segments,
                               !.store_before = runs[r].store_before,
                               !.error = runs[r].pending,
                               !.raised_in = runs[r].raised_in]]
    /\ prev_ingest' = IF runs[r].pending = "ok"
                      THEN [session_id |-> runs[r].session_id,
                            video_path |-> runs[r].video_path]
                      ELSE NoIngest
    /\ UNCHANGED <<segmenter, store, threads, q, last_cleanup, ingests, seg_call, config, caller>>

(* CloudVideoRAGService.cleanup -> SupabaseVectorStore.delete_session *)
Cleanup(session_id) ==
    /\ NoCallInProgress
    /\ \/ /\ store' = delete_sync(store, session_id)
          /\ last_cleanup' = [session_id |-> session_id, status |-> "ok"]
       \/ /\ store' = store
          /\ last_cleanup' = [session_id |-> session_id, status |-> "APIError"]
    /\ runs' = [r \in Runs |-> IdleRun]
    /\ threads' = [r \in Runs |-> IdleThread]
    /\ q' = IdleQuery
    /\ prev_ingest' = NoIngest
    /\ UNCHANGED <<segmenter, ingests, seg_call, config>>

-----------------------------------------------------------------------------
(* The match function of the store (self.match_rpc), called with the
   payload similarity_search builds.  It ranks the rows that pass the
   payload's filter by descending similarity to query_embedding, keeps those
   at or above similarity_threshold when the payload has one, and returns at
   most match_count of them.  The order of rows of equal similarity is the
   store's own.  A match is returned flat (the row's fields beside
   similarity) or nested (similarity beside a metadata payload). *)

Similarity(query_embedding, embedding) ==
    IF query_embedding = embedding THEN 1 ELSE 0

MatchShapes == {"flat", "nested"}

Passes(row, payload) ==
    /\ payload.filter = <<>> \/ row.session_id = payload.filter[1]
    /\ \/ payload.similarity_threshold = <<>>
       \/ Similarity(payload.query_embedding, row.embedding) >= payload.similarity_threshold[1]

Ranked(rows, payload) ==
    LET eligible == {row \in rows : Passes(row, payload)}
        n == Min(Max(payload.match_count, 0), Cardinality(eligible))
        sim(row) == Similarity(payload.query_embedding, row.embedding)
    IN  {s \in [1..n -> eligible] :
            /\ \A i, j \in 1..n : i < j => s[i] # s[j] /\ sim(s[i]) >= sim(s[j])
            /\ \A row \in eligible : \A i \in 1..n :
                  row \notin Range(s) => sim(row) <= sim(s[i])}

match_rpc(rows, payload) ==
    {[i \in 1..Len(s) |->
        [shape |-> shape,
         similarity |-> <<Similarity(payload.query_embedding, s[i].embedding)>>,
         row |-> s[i]]] : s \in Ranked(rows, payload), shape \in MatchShapes}

(* A payload without the session filter *)
search_payload_unfiltered(session_id, embedding, match_count, similarity_threshold) ==
    [query_embedding |-> embedding,
     match_count |-> match_count,
     filter |-> <<>>,
     similarity_threshold |-> similarity_threshold]

(* The payload of SupabaseVectorStore.similarity_search (lines 40-46). *)
search_payload(session_id, embedding, match_count, similarity_threshold) ==
    [query_embedding |-> embedding,
     match_count |-> match_count,
     filter |-> <<session_id>>,
     similarity_threshold |-> similarity_threshold]

(* return response.data or [] : data is <<>> for None as for an empty list *)
similarity_search(rows, session_id, embedding, match_count, similarity_threshold) ==
    match_rpc(rows, search_payload(session_id, embedding, match_count, similarity_threshold))

(* match.get("similarity") and data.get("similarity") of query, where
   data = match.get("metadata", match) *)
match_similarity(match) == match.similarity
data_similarity(match) == IF match.shape = "nested" THEN <<>> ELSE match.similarity

(* The evidence item query builds for one match (lines 104-115). *)
evidence_item(match) ==
    [segment_id |-> match.row.segment_id,
     start |-> match.row.start,
     end |-> match.row.end,
     summary |-> match.row.summary,
     caption |-> match.row.caption,
     transcript |-> match.row.transcript,
     similarity |-> PyOr(match_similarity(match), data_similarity(match))]

build_evidence(matches) == [i \in 1..Len(matches) |-> evidence_item(matches[i])]

-----------------------------------------------------------------------------
(* CloudVideoRAGService.query *)

TopKs == 1..MaxTopK
Thresholds == {<<>>, <<0>>, <<1>>}

(* A query that goes on to the next stage after a stage raised *)
QueryFailsSwallowed(err, where) ==
    q' = IF where = "answer"
         THEN [IdleQuery EXCEPT !.pc = "Failed", !.error = err, !.raised_in = where,
                                !.calls = Append(q.calls, where)]
         ELSE [q EXCEPT !.pc = IF where = "embed" THEN "search" ELSE "answer",
                        !.query_embedding = <<0>>,
                        !.error = err, !.raised_in = where,
                        !.calls = Append(q.calls, where)]

(* The call ends: its arguments and locals are gone, the caller holds the
   result or the exception.  calls lists the stages the call invoked. *)
QueryFails(err, where) ==
    q' = [IdleQuery EXCEPT !.pc = "Failed", !.error = err, !.raised_in = where,
                           !.calls = Append(q.calls, where)]

QueryReturns(resp) ==
    q' = [IdleQuery EXCEPT !.pc = "Returned", !.result = resp,
                           !.calls = Append(q.calls, "answer")]

Query(session_id, question, top_k, similarity_threshold) ==
    /\ NoCallInProgress
    /\ q' = [IdleQuery EXCEPT !.pc = "embed",
                              !.session_id = session_id,
                              !.question = question,
                              !.top_k = top_k,
                              !.similarity_threshold = similarity_threshold]
    /\ runs' = [r \in Runs |-> IdleRun]
    /\ threads' = [r \in Runs |-> IdleThread]
    /\ prev_ingest' = NoIngest
    /\ UNCHANGED <<segmenter, store, last_cleanup, ingests, seg_call, config>>

(* query_embedding = await self.embedding_client.embed(question) *)
QueryEmbed ==
    /\ q.pc = "embed"
    /\ \/ \E err \in ServiceErrors : QueryFails(err, "embed")
       \/ q' = [q EXCEPT !.pc = "search", !.query_embedding = <<EmbeddingOf(q.question)>>,
                          !.calls = Append(@, "embed")]
    /\ UNCHANGED <<segmenter, store, runs, threads, last_cleanup, ingests, prev_ingest, seg_call, config, caller>>

(* matches = await self.vector_store.similarity_search(...), then the loop
   that builds the evidence list. *)
QuerySearch ==
    /\ q.pc = "search"
    /\ \/ \E err \in ServiceErrors : QueryFails(err, "search")
       \/ \E matches \in similarity_search(store, q.session_id, q.query_embedding[1],
                                           q.top_k, q.similarity_threshold) :
             q' = [q EXCEPT !.pc = "answer",
                            !.matches = matches,
                            !.evidence = build_evidence(matches),
                            !.calls = Append(@, "search")]
    /\ UNCHANGED <<segmenter, store, runs, threads, last_cleanup, ingests, prev_ingest, seg_call, config, caller>>

(* return await self.answer_generator.answer(question, evidence) *)
AnswerPayloads == {[answer |-> "answer", evidence |-> "cited"]}

(* Responses of the answer service that break the declared shape {answer:
   string, evidence: array, confidence: optional number in [0,1]}; the
   confidence is counted in tenths. *)
MalformedAnswerPayloads ==
    {NotJson,
     [answer |-> "answer"],
     [evidence |-> "cited"],
     [answer |-> "answer", evidence |-> "cited", confidence |-> 20]}

QueryAnswer ==
    /\ q.pc = "answer"
    /\ \/ \E err \in ServiceErrors : QueryFails(err, "answer")
       \/ \E resp \in AnswerPayloads : QueryReturns(resp)
    /\ UNCHANGED <<segmenter, store, runs, threads, last_cleanup, ingests, prev_ingest, seg_call, config, caller>>

(* The answer service answers with a payload that breaks the declared shape:
   answer returns json.loads(payload) as it is, or json.loads raises. *)
QueryAnswerMalformed ==
    /\ q.pc = "answer"
    /\ \E payload \in MalformedAnswerPayloads :
          IF json_loads(payload).ok
          THEN QueryReturns(json_loads(payload).value)
          ELSE QueryFails(json_loads(payload).error, "answer")
    /\ UNCHANGED <<segmenter, store, runs, threads, last_cleanup, ingests, prev_ingest, seg_call, config, caller>>

-----------------------------------------------------------------------------
(* One caller that makes one call at a time, through the asynchronous entry
   points, on a service built with the default configuration. *)

Init ==
    /\ segmenter = VideoSegmenter(DefaultSegmentDuration, DefaultFramesPerSegment)
    /\ store = {}
    /\ runs = [r \in Runs |-> IdleRun]
    /\ threads = [r \in Runs |-> IdleThread]
    /\ q = IdleQuery
    /\ last_cleanup = NoCleanup
    /\ ingests = 0
    /\ prev_ingest = NoIngest
    /\ seg_call = [duration |-> <<>>, returned |-> TRUE, segments |-> <<>>, resegmented |-> <<>>]
    /\ config = DefaultConfig
    /\ caller = NoCaller

Task == "r1"

Next ==
    \/ \E s \in Sessions, v \in VideoPaths : IngestVideo(Task, s, v) /\ UNCHANGED caller
    \/ Segment(Task)
    \/ Transcribe(Task)
    \/ Describe(Task)
    \/ Summarize(Task)
    \/ Embed(Task)
    \/ UpsertRecords(Task)
    \/ UpsertSync(Task)
    \/ AwaitUpsert(Task)
    \/ CancelUpsert(Task)
    \/ Finally(Task)
    \/ \E s \in Sessions : Cleanup(s) /\ UNCHANGED caller
    \/ \E s \in Sessions, question \in Questions, k \in TopKs, thr \in Thresholds :
          Query(s, question, k, thr) /\ UNCHANGED caller
    \/ QueryEmbed
    \/ QuerySearch
    \/ QueryAnswer

Spec == Init /\ [][Next]_vars

-----------------------------------------------------------------------------
(* A direct call of segment() on a readable clip, for every duration and
   every configured segment_duration within the bounds. *)

Durations == {d * 2500 : d \in 0..MaxDurationSteps}

InitSeg ==
    /\ \E sd \in 1..MaxSegmentDuration :
          segmenter = VideoSegmenter(sd, DefaultFramesPerSegment)
    /\ \E d \in Durations :
          seg_call = [duration |-> <<d>>, returned |-> FALSE, segments |-> <<>>, resegmented |-> <<>>]
    /\ store = {}
    /\ runs = [r \in Runs |-> IdleRun]
    /\ threads = [r \in Runs |-> IdleThread]
    /\ q = IdleQuery
    /\ last_cleanup = NoCleanup
    /\ ingests = 0
    /\ prev_ingest = NoIngest
    /\ config = [DefaultConfig EXCEPT !.segment_duration = segmenter.segment_duration]
    /\ caller = NoCaller

SegmentCall ==
    /\ ~seg_call.returned
    /\ seg_call' = [seg_call EXCEPT !.returned = TRUE,
                                    !.segments = segment(segmenter, seg_call.duration, TRUE)]
    /\ UNCHANGED <<segmenter, store, runs, threads, q, last_cleanup, ingests, prev_ingest,
                   config, caller>>

(* A second call of segment() on the same clip, by the same segmenter; its
   result is <<segments>>. *)
SegmentAgain ==
    /\ seg_call.returned
    /\ seg_call.duration # <<>>
    /\ seg_call.resegmented = <<>>
    /\ seg_call' = [seg_call EXCEPT
          !.resegmented = <<segment(segmenter, seg_call.duration, TRUE)>>]
    /\ UNCHANGED <<segmenter, store, runs, threads, q, last_cleanup, ingests, prev_ingest,
                   config, caller>>

NextSeg ==
    \/ SegmentCall
    \/ SegmentAgain

SpecSeg == InitSeg /\ [][NextSeg]_vars

-----------------------------------------------------------------------------
(* Properties of the ingestion run. *)

Ended(r) == runs[r].pc \in {"Done", "Failed"}
InLoop == {"segment", "transcribe", "caption", "summarize", "embed"}
SegmentIds(r) == {runs[r].segments[i].id : i \in 1..Len(runs[r].segments)}

(* C1: no run has ended, as Done or as Failed, with the temporary directory
   segment() made for it still on disk. *)
C1_WorkspaceReleased ==
    \A r \in Runs : Ended(r) => ~runs[r].temp_dir

(* C2: a run that returned normally has a row in the store for every segment
   the segmenter produced, holding the record the run built for it; every
   other run that ended raised an error to the caller; and a run that
   failed in segmenting, enrichment or embedding handed no batch to the
   store and left the store as it was when the run began. *)
C2_AtomicIngest ==
    \A r \in Runs :
        /\ runs[r].pc = "Done" =>
              /\ Len(runs[r].records) = Len(runs[r].segments)
              /\ \A i \in 1..Len(runs[r].segments) :
                    /\ runs[r].records[i].segment_id = runs[r].segments[i].id
                    /\ runs[r].records[i].session_id = runs[r].session_id
                    /\ runs[r].records[i] \in store
        /\ runs[r].pc = "Failed" => runs[r].error # None
        /\ runs[r].pc = "Failed" /\ runs[r].raised_in \in InLoop =>
              /\ threads[r] = IdleThread
              /\ store = runs[r].store_before

C2_Witness ==
    /\ runs[Task].pc = "Failed"
    /\ runs[Task].raised_in = "embed"
    /\ Len(runs[Task].segments) = 2
    /\ store # {}
    /\ store = runs[Task].store_before

(* C3: when the same video is ingested into the same session twice in a row
   and the second run returns, the session has the same segment_id keys and
   as many rows as after the first run, every row of the second run's batch
   is in the store, and no key has two rows. *)
C3_Reingest ==
    \A r \in Runs :
        runs[r].pc = "Done" /\ runs[r].repeat =>
            LET s == runs[r].session_id
                before == runs[r].store_before
            IN  /\ SessionKeys(store, s) = SessionKeys(before, s)
                /\ Cardinality(SessionRows(store, s)) = Cardinality(SessionRows(before, s))
                /\ Range(runs[r].records) \subseteq store
                /\ \A a, b \in store : SameKey(a, b) => a = b

C3_Witness ==
    /\ runs[Task].pc = "Done"
    /\ runs[Task].repeat
    /\ Len(runs[Task].records) = 2
    /\ store # runs[Task].store_before

(* C4: for a readable clip of duration D > 0 and a segmenter configured with
   segment_duration S, segment() returns ceil(D/S) segments in ordinal order;
   segment i spans [i*S, min((i+1)*S, D)); consecutive segments abut, each
   has positive length, none extends past D and the last ends at D. *)
C4_SegmentBoundaries ==
    (seg_call.returned /\ seg_call.duration # <<>> /\ seg_call.duration[1] > 0) =>
        LET D == seg_call.duration[1]
            S == segmenter.segment_duration * 1000
            segs == seg_call.segments
            n == Len(segs)
        IN  /\ n >= 1
            /\ (n - 1) * S < D
            /\ D <= n * S
            /\ \A i \in 1..n :
                  /\ segs[i].id[2] = i - 1
                  /\ segs[i].start = (i - 1) * S
                  /\ segs[i].end = Min(i * S, D)
                  /\ segs[i].start < segs[i].end
                  /\ segs[i].end <= D
            /\ \A i \in 1..(n - 1) : segs[i].end = segs[i + 1].start
            /\ segs[1].start = 0
            /\ segs[n].end = D

C4_Witness ==
    /\ seg_call.returned
    /\ seg_call.duration = <<65000>>
    /\ segmenter.segment_duration = 30
    /\ Len(seg_call.segments) = 3
    /\ <<seg_call.segments[1].start, seg_call.segments[1].end>> = <<0, 30000>>
    /\ <<seg_call.segments[2].start, seg_call.segments[2].end>> = <<30000, 60000>>
    /\ <<seg_call.segments[3].start, seg_call.segments[3].end>> = <<60000, 65000>>

(* C5: the matches search returns and the evidence list query hands to the
   answerer each hold at most top_k items, and with a similarity_threshold
   every one of them carries a similarity at or above it. *)
C5_SearchBounds ==
    q.pc = "answer" =>
        /\ Len(q.matches) <= q.top_k
        /\ Len(q.evidence) <= q.top_k
        /\ q.similarity_threshold # <<>> =>
              /\ \A i \in 1..Len(q.matches) :
                    q.matches[i].similarity[1] >= q.similarity_threshold[1]
              /\ \A i \in 1..Len(q.evidence) :
                    /\ q.evidence[i].similarity # <<>>
                    /\ q.evidence[i].similarity[1] >= q.similarity_threshold[1]

(* C6: every match search returns is a row of the store under the session
   that was asked for, the matches are in non-increasing order of
   similarity, and the evidence list handed to the answerer has one item per
   match, in the same order, built from that match's row. *)
C6_SessionAndOrder ==
    q.pc = "answer" =>
        /\ \A i \in 1..Len(q.matches) :
              /\ q.matches[i].row.session_id = q.session_id
              /\ q.matches[i].row \in store
        /\ \A i, j \in 1..Len(q.matches) :
              i < j => q.matches[i].similarity[1] >= q.matches[j].similarity[1]
        /\ Len(q.evidence) = Len(q.matches)
        /\ \A i \in 1..Len(q.matches) :
              /\ q.evidence[i].segment_id = q.matches[i].row.segment_id
              /\ q.evidence[i].start = q.matches[i].row.start
              /\ q.evidence[i].end = q.matches[i].row.end
              /\ q.evidence[i].summary = q.matches[i].row.summary
              /\ q.evidence[i].caption = q.matches[i].row.caption
              /\ q.evidence[i].transcript = q.matches[i].row.transcript

C6_Witness ==
    /\ q.pc = "answer"
    /\ Len(q.matches) = 2
    /\ q.matches[1].similarity[1] > q.matches[2].similarity[1]
    /\ \E row \in store : row.session_id # q.session_id

(* C7: a cleanup of session s that completes leaves no row of s in the store
   and the rows of every other session as they were; until the next ingest
   the store holds no row of s, and a search for s returns nothing. *)
C7_DeleteSession ==
    /\ [](last_cleanup.status = "ok" =>
            /\ SessionRows(store, last_cleanup.session_id) = {}
            /\ (q.pc = "answer" /\ q.session_id = last_cleanup.session_id) =>
                  q.matches = <<>> /\ q.evidence = <<>>)
    /\ [][\A s \in Sessions :
            (Cleanup(s) /\ last_cleanup'.status = "ok") =>
                /\ SessionRows(store', s) = {}
                /\ \A o \in Sessions \ {s} : SessionRows(store', o) = SessionRows(store, o)]_vars

C7_Witness ==
    /\ last_cleanup.status = "ok"
    /\ q.pc = "answer"
    /\ q.session_id = last_cleanup.session_id
    /\ q.similarity_threshold = <<>>
    /\ ingests >= 2
    /\ \E row \in store : row.session_id # q.session_id

(* C8: when the store wrote some rows of a batch and not others and the run
   was not cancelled, the run ends with PartialUpsertError and the rows that
   were written are in the store. *)
C8_PartialUpsertError ==
    \A r \in Runs :
        ( /\ runs[r].pc = "Failed"
          /\ runs[r].raised_in = "upsert"
          /\ runs[r].error # "CancelledError"
          /\ threads[r].state = "raised"
          /\ threads[r].written # {} ) =>
            /\ runs[r].error = "PartialUpsertError"
            /\ threads[r].written \subseteq SessionKeys(store, runs[r].session_id)

(* C9: the ingest of a source that cannot be opened, or whose duration is
   missing or zero, does not return normally. *)
C9_UnreadableSourceFails ==
    \A r \in Runs :
        ( /\ runs[r].video_path # None
          /\ \/ ~Clip(runs[r].video_path).openable
             \/ ~Truthy(Clip(runs[r].video_path).duration) ) =>
            runs[r].pc # "Done"

(* C10: for a segment whose audio handle is None or names no file, the
   transcription service is not called and the transcript is the empty
   string; the segment goes on through captioning, summarization and
   embedding, and its record is in the batch with transcript "". *)
C10_NoAudioTranscript ==
    \A r \in Runs :
        /\ \A i \in runs[r].no_audio :
              /\ i \notin runs[r].asr_called
              /\ i = runs[r].idx => runs[r].pc \in {"caption", "summarize", "embed", "finally"}
              /\ (i = runs[r].idx /\ runs[r].pc \in {"caption", "summarize", "embed"}) =>
                    runs[r].transcript = ""
              /\ (i = runs[r].idx /\ runs[r].pc = "finally") =>
                    runs[r].raised_in \in {"caption", "summarize", "embed"}
              /\ i < runs[r].idx =>
                    /\ i <= Len(runs[r].records)
                    /\ runs[r].records[i].transcript = ""
                    /\ runs[r].records[i].segment_id = runs[r].segments[i].id
        /\ runs[r].pc \in {"upsert", "await_upsert"} =>
              /\ Len(runs[r].records) = Len(runs[r].segments)
              /\ runs[r].pc = "await_upsert" => threads[r].records = runs[r].records

C10_Witness ==
    /\ runs[Task].pc = "await_upsert"
    /\ runs[Task].no_audio = {1}
    /\ runs[Task].asr_called = {2}
    /\ runs[Task].segments[1].audio_path # <<>>
    /\ threads[Task].records[1].transcript = ""
    /\ threads[Task].records[2].transcript = "speech"

-----------------------------------------------------------------------------
(* Ingestion on a service constructed with a given frames_per_segment. *)

MaxFramesPerSegment == 2    \* largest configured frames_per_segment

IngestStep(r) ==
    \/ Segment(r)
    \/ Transcribe(r)
    \/ Describe(r)
    \/ Summarize(r)
    \/ Embed(r)
    \/ UpsertRecords(r)
    \/ UpsertSync(r)
    \/ AwaitUpsert(r)
    \/ CancelUpsert(r)
    \/ Finally(r)

InitFrames ==
    /\ \E fps \in 0..MaxFramesPerSegment :
          /\ segmenter = VideoSegmenter(DefaultSegmentDuration, fps)
          /\ config = [DefaultConfig EXCEPT !.frames_per_segment = fps]
    /\ store = {}
    /\ runs = [r \in Runs |-> IdleRun]
    /\ threads = [r \in Runs |-> IdleThread]
    /\ q = IdleQuery
    /\ last_cleanup = NoCleanup
    /\ ingests = 0
    /\ prev_ingest = NoIngest
    /\ seg_call = [duration |-> <<>>, returned |-> TRUE, segments |-> <<>>, resegmented |-> <<>>]
    /\ caller = NoCaller

NextFrames ==
    \/ \E s \in Sessions, v \in VideoPaths : IngestVideo(Task, s, v) /\ UNCHANGED caller
    \/ IngestStep(Task)
    \/ \E s \in Sessions : Cleanup(s) /\ UNCHANGED caller

SpecFrames == InitFrames /\ [][NextFrames]_vars

(* C11: on a service with frames_per_segment = 0, segment() asks the decoder
   for no frame and every segment's frame list is empty; the request
   describe sends holds its text item and no image item, with the prompt
   that names the transcript as the only context; and a caption the service
   returns is the caption of the segment. *)
C11_NoFrames ==
    segmenter.frames_per_segment = 0 =>
        \A r \in Runs :
            /\ \A i \in 1..Len(runs[r].segments) :
                  /\ runs[r].segments[i].get_frame = <<>>
                  /\ runs[r].segments[i].frames_base64 = <<>>
            /\ runs[r].pc = "caption" =>
                  \A item \in Range(describe_request(runs[r].segments[runs[r].idx],
                                                     runs[r].transcript)) :
                      item.type = "input_text"
            /\ runs[r].pc \in {"summarize", "embed"} =>
                  /\ Len(runs[r].caption_request) = 1
                  /\ runs[r].caption_request[1].type = "input_text"
                  /\ runs[r].caption_request[1].prompt =
                        "No frames were extracted for this segment."
                  /\ runs[r].caption_request[1].transcript =
                        (IF runs[r].transcript = "" THEN "N/A" ELSE runs[r].transcript)
                  /\ runs[r].caption \in CaptionTexts

C11_Witness ==
    /\ segmenter.frames_per_segment = 0
    /\ runs[Task].pc = "summarize"
    /\ runs[Task].idx = 2
    /\ runs[Task].transcript = "speech"
    /\ runs[Task].caption_request[1].transcript = "speech"
    /\ runs[Task].caption = "caption"

-----------------------------------------------------------------------------
(* C12: the store never holds two rows of one (session_id, segment_id); every
   record of a batch handed to the store carries the session_id the caller
   gave to that ingest_video call and the id, start and end of the segment
   at its place; and every row a step adds to the store is a record of the
   batch of a run, written under that run's session_id. *)
C12_OneRowPerKey ==
    /\ [](/\ \A a, b \in store : SameKey(a, b) => a = b
          /\ \A r \in Runs :
                threads[r].state # "none" =>
                    /\ Len(threads[r].records) = Len(runs[r].segments)
                    /\ \A i \in 1..Len(threads[r].records) :
                          /\ threads[r].records[i].session_id = runs[r].session_id
                          /\ threads[r].records[i].segment_id = runs[r].segments[i].id
                          /\ threads[r].records[i].start = runs[r].segments[i].start
                          /\ threads[r].records[i].end = runs[r].segments[i].end)
    /\ [][\A row \in store' \ store :
            \E r \in Runs :
                /\ row \in Range(threads[r].records)
                /\ row.session_id = runs[r].session_id
                /\ row.session_id \in Sessions]_vars

C12_Witness ==
    /\ runs[Task].pc = "Done"
    /\ runs[Task].repeat
    /\ Len(runs[Task].records) = 2
    /\ \E old \in runs[Task].store_before :
          /\ old \notin store
          /\ \E new \in store : SameKey(old, new) /\ new.transcript # old.transcript

-----------------------------------------------------------------------------
(* VideoRAG: the blocking entry points.  Each asks asyncio.get_running_loop()
   first: when the caller's thread runs an event loop it raises RuntimeError;
   when there is none (get_running_loop raises) it hands the coroutine of
   the asynchronous core to asyncio.run. *)

(* A test that always takes the except branch *)
in_event_loop_unchecked(loop_running) == FALSE

(* try: asyncio.get_running_loop() ... else: raise RuntimeError(...) *)
in_event_loop(loop_running) == loop_running

Rejected(entry, loop_running) ==
    /\ NoCallInProgress
    /\ caller' = [entry |-> entry, loop_running |-> loop_running, error |-> "RuntimeError"]
    /\ UNCHANGED <<segmenter, store, runs, threads, q, last_cleanup, ingests, prev_ingest,
                   seg_call, config>>

Accepted(entry, loop_running) ==
    caller' = [entry |-> entry, loop_running |-> loop_running, error |-> None]

(* VideoRAG.ingest_video *)
BlockingIngestVideo(r, session_id, video_path, loop_running) ==
    IF in_event_loop(loop_running)
    THEN Rejected("ingest_video", loop_running)
    ELSE IngestVideo(r, session_id, video_path) /\ Accepted("ingest_video", loop_running)

(* VideoRAG.query *)
BlockingQuery(session_id, question, top_k, similarity_threshold, loop_running) ==
    IF in_event_loop(loop_running)
    THEN Rejected("query", loop_running)
    ELSE Query(session_id, question, top_k, similarity_threshold)
            /\ Accepted("query", loop_running)

(* VideoRAG.cleanup *)
BlockingCleanup(session_id, loop_running) ==
    IF in_event_loop(loop_running)
    THEN Rejected("cleanup", loop_running)
    ELSE Cleanup(session_id) /\ Accepted("cleanup", loop_running)

(* One caller of the blocking entry points, inside or outside an event loop,
   working on one session. *)
BlockingVideos == {"missing.mp4", "silent30.mp4", "talk45.mp4"}

NextBlocking ==
    \/ \E v \in BlockingVideos, loop_running \in BOOLEAN :
          BlockingIngestVideo(Task, "s1", v, loop_running)
    \/ IngestStep(Task)
    \/ \E loop_running \in BOOLEAN : BlockingCleanup("s1", loop_running)
    \/ \E question \in Questions, k \in TopKs, loop_running \in BOOLEAN :
          BlockingQuery("s1", question, k, <<>>, loop_running)
    \/ QueryEmbed
    \/ QuerySearch
    \/ QueryAnswer

SpecBlocking == Init /\ [][NextBlocking]_vars

(* C13: a blocking entry point called in a thread that runs an event loop
   raises RuntimeError in that step, which starts no stage, makes no
   workspace and leaves the store, the runs and the query as they were;
   called without a running loop it raises no error of its own and the call
   of the asynchronous core is the call that was asked for, whose result or
   error is the caller's. *)
C13_BlockingEntry ==
    /\ [](/\ caller.loop_running => caller.error = "RuntimeError"
          /\ (caller.entry # None /\ ~caller.loop_running) =>
                /\ caller.error = None
                /\ caller.entry = "ingest_video" =>
                      /\ runs[Task].pc # "idle"
                      /\ q.pc = "idle"
                /\ caller.entry = "query" =>
                      /\ q.pc # "idle" \/ q.result # None \/ q.error # None
                      /\ runs[Task].pc = "idle"
                /\ caller.entry = "cleanup" =>
                      /\ last_cleanup.status \in {"ok", "APIError"}
                      /\ runs[Task].pc = "idle"
                      /\ q.pc = "idle")
    /\ [][caller'.loop_running =>
            UNCHANGED <<segmenter, store, runs, threads, q, last_cleanup, ingests,
                        prev_ingest>>]_vars

C13_Witness ==
    /\ caller = [entry |-> "ingest_video", loop_running |-> TRUE, error |-> "RuntimeError"]
    /\ store # {}
    /\ runs[Task].pc = "Done"
    /\ ~runs[Task].temp_dir
    /\ ingests = 1

-----------------------------------------------------------------------------
EnrichmentStages == {"transcribe", "caption", "summarize", "embed"}

(* C14: when a service call of the transcription, captioning, summarization
   or embedding of segment i fails, the exception on its way to the caller
   is an EnrichmentError that carries the id of segment i. *)
C14_EnrichmentError ==
    \A r \in Runs :
        ( /\ runs[r].pc = "finally"
          /\ runs[r].raised_in \in EnrichmentStages
          /\ runs[r].pending # "CancelledError" ) =>
            /\ runs[r].pending = "EnrichmentError"
            /\ runs[r].error_segment = <<runs[r].segments[runs[r].idx].id>>

-----------------------------------------------------------------------------
(* The services' structured responses may break their declared shapes. *)

SchemaVideos == {"missing.mp4", "silent30.mp4", "talk45.mp4"}

NextSchema ==
    \/ \E v \in SchemaVideos : IngestVideo(Task, "s1", v) /\ UNCHANGED caller
    \/ IngestStep(Task)
    \/ SummarizeMalformed(Task)
    \/ Cleanup("s1") /\ UNCHANGED caller
    \/ \E question \in Questions, k \in TopKs :
          Query("s1", question, k, <<>>) /\ UNCHANGED caller
    \/ QueryEmbed
    \/ QuerySearch
    \/ QueryAnswer
    \/ QueryAnswerMalformed

SpecSchema == Init /\ [][NextSchema]_vars

(* The declared shape of a segment summary, in a stored record: key_points
   is an array of strings. *)
ConformantRecord(rec) == rec.key_points.type = "array"

(* C15: no record built from a summary that breaks the declared shape
   {summary: string, key_points: array of strings} is ever upserted:
   summarize fails on such a response and does not pass its value on, so
   every row of the store has an array of strings as its key_points. *)
C15_SummarySchema ==
    \A row \in store : ConformantRecord(row)

(* C16: query never returns an object that lacks the answer field or the
   evidence field, or whose confidence is outside [0,1]. *)
C16_AnswerSchema ==
    q.pc = "Returned" =>
        /\ {"answer", "evidence"} \subseteq DOMAIN q.result
        /\ "confidence" \in DOMAIN q.result =>
              q.result.confidence >= 0 /\ q.result.confidence <= 10

-----------------------------------------------------------------------------
(* Construction of the service and of QueryParam with any arguments. *)

MaxConfigValue == 2     \* constructor arguments are -1 .. MaxConfigValue

ConfigValues == -1..MaxConfigValue
ConfigThresholds == {<<>>} \cup {<<x>> : x \in ConfigValues}

(* QueryParam(top_k=..., similarity_threshold=...): a dataclass without
   __post_init__; the fields hold the arguments as given. *)
QueryParam(top_k, similarity_threshold) ==
    [top_k |-> <<top_k>>, similarity_threshold |-> similarity_threshold]

NewQueryParam(top_k, similarity_threshold) ==
    /\ config' = [config EXCEPT !.query_param = QueryParam(top_k, similarity_threshold)]
    /\ UNCHANGED <<segmenter, store, runs, threads, q, last_cleanup, ingests, prev_ingest,
                   seg_call, caller>>

InitConfig ==
    /\ \E sd \in ConfigValues, fps \in ConfigValues :
          /\ config = [segment_duration |-> sd, frames_per_segment |-> fps,
                       query_param |-> NoQueryParam]
          /\ segmenter = VideoSegmenter(sd, fps)
    /\ \E d \in Durations :
          seg_call = [duration |-> <<d>>, returned |-> FALSE, segments |-> <<>>, resegmented |-> <<>>]
    /\ store = {}
    /\ runs = [r \in Runs |-> IdleRun]
    /\ threads = [r \in Runs |-> IdleThread]
    /\ q = IdleQuery
    /\ last_cleanup = NoCleanup
    /\ ingests = 0
    /\ prev_ingest = NoIngest
    /\ caller = NoCaller

NextConfig ==
    \/ SegmentCall
    \/ \E top_k \in ConfigValues, thr \in ConfigThresholds : NewQueryParam(top_k, thr)

SpecConfig == InitConfig /\ [][NextConfig]_vars

(* C17: a service exists only for a segment_duration > 0 and a
   frames_per_segment >= 0, and its segmenter holds the values it was given;
   a QueryParam exists only for a top_k > 0 and a similarity_threshold that
   is None or within [0,1]; no step changes the configured values. *)
C17_ConfigValidated ==
    /\ [](/\ config.segment_duration > 0
          /\ config.frames_per_segment >= 0
          /\ segmenter.segment_duration = config.segment_duration
          /\ segmenter.frames_per_segment = config.frames_per_segment
          /\ config.query_param # NoQueryParam =>
                /\ config.query_param.top_k[1] > 0
                /\ \/ config.query_param.similarity_threshold = <<>>
                   \/ /\ config.query_param.similarity_threshold[1] >= 0
                      /\ config.query_param.similarity_threshold[1] <= 1)
    /\ [][/\ segmenter' = segmenter
          /\ config'.segment_duration = config.segment_duration
          /\ config'.frames_per_segment = config.frames_per_segment]_vars

-----------------------------------------------------------------------------
QueryStages == <<"embed", "search", "answer">>

(* C18: a query invokes embed, search and answer in that order and each at
   most once; a query that returned invoked all three; a query in which a
   stage raised invoked no later stage, ended with that error and returned
   no answer; and no step of a query changes the store. *)
C18_QueryPath ==
    /\ [](/\ q.pc = "idle" => q.calls = <<>>
          /\ q.pc = "embed" => q.calls = <<>>
          /\ q.pc = "search" => q.calls = SubSeq(QueryStages, 1, 1)
          /\ q.pc = "answer" => q.calls = SubSeq(QueryStages, 1, 2)
          /\ q.pc = "Returned" =>
                q.calls = QueryStages /\ q.result \in AnswerPayloads /\ q.error = None
          /\ q.error # None => q.pc = "Failed"
          /\ q.pc = "Failed" =>
                /\ q.result = None
                /\ q.error # None
                /\ \E n \in 1..3 :
                      q.raised_in = QueryStages[n] /\ q.calls = SubSeq(QueryStages, 1, n))
    /\ [][(q' # q /\ q'.pc # "idle") => store' = store]_vars

C18_Witness ==
    /\ q.pc = "Failed"
    /\ q.raised_in = "search"
    /\ q.calls = <<"embed", "search">>
    /\ store # {}

-----------------------------------------------------------------------------
(* The stages of an ingestion run and the moves between them:
   Segmenting, Enriching (transcribe, caption, summarize) and Embedding of
   each segment, Indexing (upsert, await_upsert), Cleanup (finally), Done,
   Failed. *)
RunMoves ==
    {<<"Segmenting", "transcribe">>, <<"Segmenting", "upsert">>, <<"Segmenting", "Failed">>,
     <<"transcribe", "caption">>, <<"transcribe", "finally">>,
     <<"caption", "summarize">>, <<"caption", "finally">>,
     <<"summarize", "embed">>, <<"summarize", "finally">>,
     <<"embed", "transcribe">>, <<"embed", "upsert">>, <<"embed", "finally">>,
     <<"upsert", "await_upsert">>, <<"upsert", "finally">>,
     <<"await_upsert", "finally">>,
     <<"finally", "Done">>, <<"finally", "Failed">>}

(* A step of run r that raises: it leaves for the finally clause with an
   exception pending, or ends the run Failed. *)
FailStep(r) ==
    /\ IngestStep(r)
    /\ \/ runs'[r].pc = "Failed"
       \/ runs'[r].pc = "finally" /\ runs'[r].pending \notin {None, "ok"}

(* C19: a run moves only along Segmenting -> transcribe -> caption ->
   summarize -> embed (per segment, in segment order) -> upsert -> finally
   -> Done, or from a stage to its failure; the caption step has the
   segment's transcript, the summarize step its transcript and caption, the
   embed step its summary; the batch is handed to the store only when it
   holds a record of every segment, and at most once per run; Done follows
   the finally clause only, with the workspace removed; and every stage that
   awaits a service, the store or the decoder has a step that fails. *)
C19_RunOrder ==
    /\ [](\A r \in Runs :
            /\ runs[r].pc \in {"transcribe", "caption", "summarize", "embed"} =>
                  /\ runs[r].idx \in 1..Len(runs[r].segments)
                  /\ Len(runs[r].records) = runs[r].idx - 1
                  /\ threads[r].state = "none"
            /\ runs[r].pc = "transcribe" => runs[r].transcript = None
            /\ runs[r].pc \in {"caption", "summarize", "embed"} =>
                  runs[r].transcript \in {"", "speech"}
            /\ runs[r].pc = "caption" => runs[r].caption = None
            /\ runs[r].pc \in {"summarize", "embed"} =>
                  /\ runs[r].caption \in CaptionTexts
                  /\ runs[r].caption_request[1].transcript =
                        (IF runs[r].transcript = "" THEN "N/A" ELSE runs[r].transcript)
            /\ runs[r].pc = "embed" => runs[r].summary \in SummaryPayloads
            /\ runs[r].pc \in {"upsert", "await_upsert"} =>
                  Len(runs[r].records) = Len(runs[r].segments)
            /\ threads[r].state # "none" =>
                  /\ Len(threads[r].records) = Len(runs[r].segments)
                  /\ Len(threads[r].records) > 0
            /\ runs[r].pc \in {"caption", "summarize", "embed", "await_upsert"} =>
                  ENABLED FailStep(r)
            /\ (runs[r].pc = "transcribe"
                    /\ runs[r].segments[runs[r].idx].audio_path # <<>>) =>
                  ENABLED FailStep(r)
            /\ (runs[r].pc = "Segmenting" /\ Truthy(Clip(runs[r].video_path).duration)) =>
                  ENABLED FailStep(r)
            /\ (runs[r].pc = "finally" /\ runs[r].pending # "ok") =>
                  ENABLED FailStep(r))
    /\ [][\A r \in Runs :
            /\ (runs'[r].pc # runs[r].pc /\ ~RunEnded(r)) =>
                  <<runs[r].pc, runs'[r].pc>> \in RunMoves
            /\ (runs'[r].pc # runs[r].pc /\ RunEnded(r)) =>
                  runs'[r].pc \in {"idle", "Segmenting"}
            /\ (runs[r].pc = "embed" /\ runs'[r].pc \in {"transcribe", "upsert"}) =>
                  /\ runs'[r].idx = runs[r].idx + 1
                  /\ Len(runs'[r].records) = runs[r].idx
                  /\ runs'[r].records[runs[r].idx].segment_id =
                        runs[r].segments[runs[r].idx].id
                  /\ runs'[r].records[runs[r].idx].transcript = runs[r].transcript
                  /\ runs'[r].records[runs[r].idx].caption = runs[r].caption
                  /\ runs'[r].records[runs[r].idx].summary = runs[r].summary.summary
            /\ (threads'[r].state = "running" /\ threads[r].state # "running") =>
                  /\ runs[r].pc = "upsert"
                  /\ threads[r].state = "none"
            /\ (runs'[r].pc = "Done" /\ runs[r].pc # "Done") =>
                  /\ runs[r].pc = "finally"
                  /\ ~runs'[r].temp_dir]_vars

C19_Witness ==
    /\ runs[Task].pc = "Done"
    /\ Len(runs[Task].segments) = 2
    /\ Len(runs[Task].records) = 2
    /\ threads[Task].state = "returned"
    /\ runs[Task].records[1].transcript = "speech"
    /\ Range(runs[Task].records) \subseteq store

-----------------------------------------------------------------------------
(* Two ingestions at once: the event loop runs one task of ingest_video for
   session s1 and one for session s2; the tasks interleave at their awaits
   and their worker threads run beside them. *)

ConcurrentVideos == {"missing.mp4", "silent30.mp4", "talk45.mp4"}
SessionOf(r) == IF r = "r1" THEN "s1" ELSE "s2"

(* The loop starts the task of ingest_video(session_id, video_path). *)
CreateTask(r, session_id, video_path) ==
    /\ runs[r].pc = "idle"
    /\ runs' = [runs EXCEPT ![r] =
                  [IdleRun EXCEPT !.pc = "Segmenting",
                                  !.session_id = session_id,
                                  !.video_path = video_path,
                                  !.store_before = store]]
    /\ threads' = [threads EXCEPT ![r] = IdleThread]
    /\ ingests' = ingests + 1
    /\ UNCHANGED <<segmenter, store, q, last_cleanup, prev_ingest, seg_call, config, caller>>

NextConcurrent ==
    \/ \E r \in Runs, v \in ConcurrentVideos : CreateTask(r, SessionOf(r), v)
    \/ \E r \in Runs : IngestStep(r)

SpecConcurrent == Init /\ [][NextConcurrent]_vars

(* The records a run of ingest_video(session_id, video_path) on its own can
   build for one segment. *)
SoloRecords(session_id, seg) ==
    {index_record(session_id, seg, summary, caption, transcript,
                  EmbeddingOf(build_embedding_input(summary, caption, transcript))) :
        summary \in SummaryPayloads, caption \in CaptionTexts,
        transcript \in IF seg.audio_path = <<>> THEN {""} ELSE {"", "speech"}}

SoloSegments(video_path) ==
    segment(segmenter, Clip(video_path).duration, Clip(video_path).audio)

(* The rows the worker thread of run r has written. *)
WrittenBy(r) ==
    {rec \in Range(threads[r].records) : rec.segment_id \in threads[r].written}

(* A step of run r: of its coroutine or of its worker thread. *)
StepOf(r) ==
    \/ runs'[r].pc # runs[r].pc
    \/ threads'[r].state # threads[r].state

(* C20: with one run per session, the rows of a session are at every moment
   the rows that session's own run has written; when that run has returned
   they are one record for each segment of its video, each a record the run
   alone could have built; no step of a run changes a row of the other
   session, the other run or the other run's workspace; and a run that has
   returned has removed its own workspace. *)
C20_Isolation ==
    /\ [](\A r \in Runs :
            /\ runs[r].pc # "idle" => runs[r].session_id = SessionOf(r)
            /\ SessionRows(store, SessionOf(r)) = WrittenBy(r)
            /\ runs[r].pc = "Done" =>
                  /\ ~runs[r].temp_dir
                  /\ runs[r].segments = SoloSegments(runs[r].video_path)
                  /\ Cardinality(SessionRows(store, SessionOf(r))) = Len(runs[r].segments)
                  /\ \A i \in 1..Len(runs[r].segments) :
                        \E row \in SessionRows(store, SessionOf(r)) :
                            row \in SoloRecords(SessionOf(r), runs[r].segments[i]))
    /\ [][\A r \in Runs :
            StepOf(r) =>
                \A o \in Runs \ {r} :
                    /\ SessionRows(store', SessionOf(o)) = SessionRows(store, SessionOf(o))
                    /\ ~StepOf(o)
                    /\ runs'[o].temp_dir = runs[o].temp_dir
                    /\ runs'[o].segments = runs[o].segments
                    /\ runs'[o].records = runs[o].records
                    /\ threads'[o] = threads[o]]_vars

C20_Witness ==
    /\ runs["r1"].pc = "Done"
    /\ runs["r2"].pc = "Done"
    /\ runs["r1"].video_path = "talk45.mp4"
    /\ runs["r2"].video_path = "talk45.mp4"
    /\ Cardinality(store) = 4
    /\ \E a, b \in store :
          /\ a.segment_id = b.segment_id
          /\ a.session_id # b.session_id
          /\ a.transcript # b.transcript

-----------------------------------------------------------------------------
(* C21: a run that ended with the cancellation of its upsert, and with no
   other error for the caller, has written no row of its batch: the store
   is as it was when the run began. *)
C21_CancelledUpsert ==
    \A r \in Runs :
        ( /\ runs[r].pc = "Failed"
          /\ runs[r].raised_in = "upsert"
          /\ runs[r].error = "CancelledError" ) =>
            /\ threads[r].written = {}
            /\ store = runs[r].store_before

-----------------------------------------------------------------------------
(* C22: the id of the segment at ordinal index i is made of i and of the
   segment's start and end in milliseconds, and of nothing else; no two
   segments of one call share an id; and a second call on the same clip
   with the same segment_duration returns the same ids in the same order. *)
C22_SegmentIds ==
    seg_call.returned =>
        LET segs == seg_call.segments
        IN  /\ \A i \in 1..Len(segs) :
                  segs[i].id = <<"seg", i - 1, segs[i].start, segs[i].end>>
            /\ \A i, j \in 1..Len(segs) : i # j => segs[i].id # segs[j].id
            /\ seg_call.resegmented # <<>> =>
                  /\ Len(seg_call.resegmented[1]) = Len(segs)
                  /\ \A i \in 1..Len(segs) : seg_call.resegmented[1][i].id = segs[i].id

C22_Witness ==
    /\ seg_call.resegmented # <<>>
    /\ seg_call.duration = <<62500>>
    /\ segmenter.segment_duration = 25
    /\ Len(seg_call.resegmented[1]) = 3
    /\ seg_call.resegmented[1][3].id = <<"seg", 2, 50000, 62500>>
    /\ seg_call.segments[3].id = <<"seg", 2, 50000, 62500>>

-----------------------------------------------------------------------------
(* C23: the similarity of every evidence item is the similarity the store
   reported for the match it was built from, a score of zero included; it
   is never another value and never missing. *)
C23_EvidenceSimilarity ==
    q.pc = "answer" =>
        /\ Len(q.evidence) = Len(q.matches)
        /\ \A i \in 1..Len(q.matches) :
              q.evidence[i].similarity = q.matches[i].similarity

====
